---- MODULE Spec2Model ----
(***************************************************************************)
(* Model of the recursive-descent parser of rust-calculator                 *)
(* (src/src/parser.rs).  The parser is a pure function of a token slice:    *)
(* every parse_* method becomes an operator over (tokens, pos) returning    *)
(* the Result it produces together with the cursor position it leaves.      *)
(* `pos` is 0-based as in the source; TLA+ sequences are 1-based.           *)
(* eval_str_ctx (src/src/main.rs) runs tokenize, parse and evaluate on a    *)
(* source text against a Context.                                           *)
(***************************************************************************)
EXTENDS Integers, Sequences, FiniteSets, TLC

VARIABLES pieces, tokens, phase, result, ctx, evaluate_calls

vars == <<pieces, tokens, phase, result, ctx, evaluate_calls>>

(***************************************************************************)
(* Token vocabulary (tokenizer::Token as used by the parser).               *)
(***************************************************************************)
Plus == <<"+">>
Minus == <<"-">>
Star == <<"*">>
Slash == <<"/">>
Percent == <<"%">>
Caret == <<"^">>
LParen == <<"(">>
RParen == <<")">>
LBrace == <<"{">>
RBrace == <<"}">>
Comma == <<",">>
Equal == <<"=">>
Newline == <<"nl">>
KeywordFn == <<"Keyword", "fn">>
KeywordIf == <<"Keyword", "if">>
KeywordElse == <<"Keyword", "else">>

\* Token::Identifier(name), for any name.
Identifier(name) == <<"Identifier", name>>

\* Token::Number(text), for any literal text.
Number(text) == <<"Number", text>>

\* The patterns Token::Identifier(_) and Token::Number(_).
IsIdentifier(t) == t[1] = "Identifier"

IsNumber(t) == t[1] = "Number"

\* The six tokens matched by the operator patterns of parse_expression.
BinaryOps == {Plus, Minus, Star, Slash, Percent, Caret}

\* Option::None of a peeked / taken token.
NoToken == <<"<none>">>

\* Result::Ok / Result::Err, each with the cursor the call leaves behind.
Ok(v, p) == [ok |-> TRUE, val |-> v, pos |-> p]

Err(e, p) == [ok |-> FALSE, val |-> e, pos |-> p]

UnexpectedToken(t) == <<"UnexpectedToken", t>>

ExpectedToken(t) == <<"ExpectedToken", t>>

ExpectedIdentifier == <<"ExpectedIdentifier">>

NoTokensLeft == <<"NoTokensLeft">>

\* The panic of op_precedence: a value no precedence equals, and the error a
\* caller reports when it sees it.
Panic == -1

Panicked == <<"panic">>

\* Option<AST> entries of AST::Lines.
SomeLine(ast) == <<"Some", ast>>

NoneLine == <<"None">>

(***************************************************************************)
(* Cursor primitives.                                                       *)
(***************************************************************************)
\* self.tokens.get(i)
Get(toks, i) == IF i >= 0 /\ i < Len(toks) THEN toks[i + 1] ELSE NoToken

\* `self.pos + n - 1` in usize when pos + n = 0: the subtraction overflows.
\* What happens is the build's choice: with overflow checks (debug builds)
\* the call panics, without them (release builds) the index wraps to
\* usize::MAX and get returns None.  Both outcomes, not one of them.
SubtractOverflow == { Panicked, NoToken }

\* self.tokens.get(self.pos + n - 1)
peek_nth(toks, pos, n) ==
    IF pos + n < 1 THEN SubtractOverflow ELSE Get(toks, pos + n - 1)

peek(toks, pos) == peek_nth(toks, pos, 1)

\* next(): the token at pos; the cursor always advances.
next_token(toks, pos) == Get(toks, pos)

next_pos(pos) == pos + 1

expect(toks, pos, expected) ==
    IF next_token(toks, pos) # expected
    THEN Err(ExpectedToken(expected), next_pos(pos))
    ELSE Ok(<<>>, next_pos(pos))

expect_identifier(toks, pos) ==
    IF IsIdentifier(next_token(toks, pos))
    THEN Ok(next_token(toks, pos)[2], next_pos(pos))
    ELSE Err(ExpectedIdentifier, next_pos(pos))

RECURSIVE skip_newlines(_, _)
skip_newlines(toks, pos) ==
    IF peek(toks, pos) = Newline THEN skip_newlines(toks, next_pos(pos)) ELSE pos

(***************************************************************************)
(* Operator table and node construction.                                    *)
(***************************************************************************)
\* op_precedence with the arm for `^` missing from the table: a binary `^`
\* falls into the panicking arm.
op_precedence_without_caret(op, is_binary) ==
    CASE op \in {Plus, Minus} /\ is_binary -> 1
      [] op \in {Star, Slash, Percent} /\ is_binary -> 2
      [] op = Minus /\ ~is_binary -> 4
      [] OTHER -> Panic

op_precedence(op, is_binary) ==
    CASE op \in {Plus, Minus} /\ is_binary -> 1
      [] op \in {Star, Slash, Percent} /\ is_binary -> 2
      [] op = Caret /\ is_binary -> 3
      [] op = Minus /\ ~is_binary -> 4
      [] OTHER -> Panic

combine_lhs_rhs(op, lhs, rhs) ==
    CASE op = Plus -> [ok |-> TRUE, val |-> <<"Add", lhs, rhs>>]
      [] op = Minus -> [ok |-> TRUE, val |-> <<"Subtract", lhs, rhs>>]
      [] op = Star -> [ok |-> TRUE, val |-> <<"Multiply", lhs, rhs>>]
      [] op = Slash -> [ok |-> TRUE, val |-> <<"Divide", lhs, rhs>>]
      [] op = Percent -> [ok |-> TRUE, val |-> <<"Modulo", lhs, rhs>>]
      [] op = Caret -> [ok |-> TRUE, val |-> <<"Power", lhs, rhs>>]
      [] OTHER -> [ok |-> FALSE, val |-> UnexpectedToken(op)]

parse_identifier_or_value(toks, pos) ==
    LET t == next_token(toks, pos) IN
    IF IsIdentifier(t) THEN Ok(<<"Variable", t[2]>>, next_pos(pos))
    ELSE IF IsNumber(t) THEN Ok(<<"Number", t[2]>>, next_pos(pos))
    ELSE IF t # NoToken THEN Err(UnexpectedToken(t), next_pos(pos))
    ELSE Err(NoTokensLeft, next_pos(pos))

(***************************************************************************)
(* The recursive descent.  Every `while` loop of the source is a recursive  *)
(* operator carrying the loop's local variables.                            *)
(***************************************************************************)
\* The `?` operator of the source (parser.rs 83, 107, 135, ...): an Err is
\* returned to the caller at once, an Ok value is handed to what follows.
Try(r, Continue(_)) == IF r.ok THEN Continue(r) ELSE r

RECURSIVE parse_block(_, _), parse_block_loop(_, _, _, _),
          parse_block_loop_unseparated(_, _, _, _),
          parse_expression(_, _), parse_expression_loop(_, _, _),
          parse_expression_with_min_precedence(_, _, _),
          parse_function_call(_, _), parse_function_call_loop(_, _, _),
          parse_function_call_loop_trailing(_, _, _),
          parse_assignment(_, _), parse_function_definition(_, _),
          parse_if_statement(_, _)

\* parse_block's loop without the check of parsed_expression_last_iteration:
\* an expression line is parsed wherever one starts.
parse_block_loop_unseparated(toks, pos, lines, parsed_expression_last_iteration) ==
    LET token == peek(toks, pos) IN
    IF token = NoToken THEN Ok(<<"Lines", lines>>, pos)
    ELSE IF token = Newline
    THEN parse_block_loop_unseparated(toks, next_pos(pos), Append(lines, NoneLine), FALSE)
    ELSE IF token = RBrace THEN Ok(<<"Lines", lines>>, pos)
    ELSE Try(IF token = KeywordFn THEN parse_function_definition(toks, pos)
             ELSE IF token = KeywordIf THEN parse_if_statement(toks, pos)
             ELSE IF IsIdentifier(token) /\ peek_nth(toks, pos, 2) = Equal
             THEN parse_assignment(toks, pos)
             ELSE parse_expression(toks, pos),
             LAMBDA r : parse_block_loop_unseparated(
                            toks, r.pos, Append(lines, SomeLine(r.val)), FALSE))

\* parse_block's loop: `lines` and `parsed_expression_last_iteration`.
parse_block_loop(toks, pos, lines, parsed_expression_last_iteration) ==
    LET token == peek(toks, pos) IN
    IF token = NoToken THEN Ok(<<"Lines", lines>>, pos)
    ELSE IF token = Newline
    THEN parse_block_loop(toks, next_pos(pos), Append(lines, NoneLine), FALSE)
    ELSE IF token = RBrace THEN Ok(<<"Lines", lines>>, pos)
    ELSE IF token = KeywordFn
    THEN Try(parse_function_definition(toks, pos),
             LAMBDA r : parse_block_loop(
                            toks, r.pos, Append(lines, SomeLine(r.val)), FALSE))
    ELSE IF token = KeywordIf
    THEN Try(parse_if_statement(toks, pos),
             LAMBDA r : parse_block_loop(
                            toks, r.pos, Append(lines, SomeLine(r.val)), FALSE))
    ELSE IF IsIdentifier(token) /\ peek_nth(toks, pos, 2) = Equal
    THEN Try(parse_assignment(toks, pos),
             LAMBDA r : parse_block_loop(
                            toks, r.pos, Append(lines, SomeLine(r.val)), FALSE))
    ELSE IF parsed_expression_last_iteration
    THEN Err(UnexpectedToken(token), pos)
    ELSE Try(parse_expression(toks, pos),
             LAMBDA r : parse_block_loop(
                            toks, r.pos, Append(lines, SomeLine(r.val)), TRUE))

parse_block(toks, pos) == parse_block_loop(toks, pos, <<>>, FALSE)

\* combine_lhs_rhs(op, lhs, rhs)? with the cursor left after rhs.
Combined(op, lhs, rhs) ==
    LET c == combine_lhs_rhs(op, lhs, rhs.val) IN
    IF c.ok THEN Ok(c.val, rhs.pos) ELSE Err(c.val, rhs.pos)

\* parse_expression's loop over the operators that follow `lhs`, and the
\* skip_newlines() that ends parse_expression.
parse_expression_loop(toks, pos, lhs) ==
    LET op == peek(toks, pos)
        precedence == op_precedence(op, TRUE) IN
    IF op \in BinaryOps
    THEN IF precedence = Panic THEN Err(Panicked, next_pos(pos))
         ELSE Try(parse_expression_with_min_precedence(
                      toks, next_pos(pos), precedence + 1),
                  LAMBDA rhs :
                      Try(Combined(op, lhs, rhs),
                          LAMBDA c : parse_expression_loop(toks, c.pos, c.val)))
    ELSE Ok(lhs, skip_newlines(toks, pos))

parse_expression(toks, pos) ==
    Try(parse_expression_with_min_precedence(toks, pos, 0),
        LAMBDA lhs : parse_expression_loop(toks, lhs.pos, lhs.val))

\* The Identifier | Number arm with the right-hand side parsed at the
\* operator's own precedence instead of one above it: an operator of the
\* same level is then taken into the right-hand side.
operand_then_operator_same_level(toks, lhs, min_precedence) ==
    LET op == peek(toks, lhs.pos)
        precedence == op_precedence(op, TRUE) IN
    IF op \in BinaryOps
    THEN IF precedence = Panic THEN Err(Panicked, lhs.pos)
         ELSE IF precedence >= min_precedence
         THEN Try(parse_expression_with_min_precedence(
                      toks, next_pos(lhs.pos), precedence),
                  LAMBDA rhs : Combined(op, lhs.val, rhs))
         ELSE lhs
    ELSE lhs

\* The Identifier | Number arm of parse_expression_with_min_precedence once
\* parse_identifier_or_value has returned lhs.
operand_then_operator(toks, lhs, min_precedence) ==
    LET op == peek(toks, lhs.pos)
        precedence == op_precedence(op, TRUE) IN
    IF op \in BinaryOps
    THEN IF precedence = Panic THEN Err(Panicked, lhs.pos)
         ELSE IF precedence >= min_precedence
         THEN Try(parse_expression_with_min_precedence(
                      toks, next_pos(lhs.pos), precedence + 1),
                  LAMBDA rhs : Combined(op, lhs.val, rhs))
         ELSE lhs
    ELSE lhs

parse_expression_with_min_precedence(toks, pos, min_precedence) ==
    LET token == peek(toks, pos)
        unary_minus_precedence == op_precedence(Minus, FALSE) IN
    IF token = Minus
    THEN IF unary_minus_precedence = Panic THEN Err(Panicked, next_pos(pos))
         ELSE Try(parse_expression_with_min_precedence(
                      toks, next_pos(pos), unary_minus_precedence),
                  LAMBDA rhs : Ok(<<"UnaryMinus", rhs.val>>, rhs.pos))
    ELSE IF token = LParen
    THEN Try(parse_expression(toks, next_pos(pos)),
             LAMBDA inner :
                 Try(expect(toks, inner.pos, RParen),
                     LAMBDA e : Ok(<<"Brackets", inner.val>>, e.pos)))
    ELSE IF IsIdentifier(token) \/ IsNumber(token)
    THEN IF peek_nth(toks, pos, 2) = LParen
         THEN parse_function_call(toks, pos)
         ELSE Try(parse_identifier_or_value(toks, pos),
                  LAMBDA lhs : operand_then_operator(toks, lhs, min_precedence))
    ELSE IF token # NoToken THEN Err(UnexpectedToken(token), pos)
    ELSE Err(NoTokensLeft, pos)

\* parse_function_call's loop with the guard of the Comma arm removed: a
\* comma is always consumed, so a trailing comma is accepted.
parse_function_call_loop_trailing(toks, pos, args) ==
    IF peek(toks, pos) # RParen
    THEN Try(parse_expression(toks, pos),
             LAMBDA arg :
                 IF peek(toks, arg.pos) = Comma
                 THEN parse_function_call_loop_trailing(
                          toks, next_pos(arg.pos), Append(args, arg.val))
                 ELSE Ok(Append(args, arg.val), arg.pos))
    ELSE Ok(args, pos)

\* parse_function_call's loop over the arguments.
parse_function_call_loop(toks, pos, args) ==
    IF peek(toks, pos) # RParen
    THEN Try(parse_expression(toks, pos),
             LAMBDA arg :
                 IF peek(toks, arg.pos) = Comma /\ peek_nth(toks, arg.pos, 2) # RParen
                 THEN parse_function_call_loop(
                          toks, next_pos(arg.pos), Append(args, arg.val))
                 ELSE Ok(Append(args, arg.val), arg.pos))
    ELSE Ok(args, pos)

parse_function_call(toks, pos) ==
    Try(expect_identifier(toks, pos), LAMBDA fn_name :
    Try(expect(toks, fn_name.pos, LParen), LAMBDA lp :
    Try(parse_function_call_loop(toks, lp.pos, <<>>), LAMBDA args :
    Try(expect(toks, args.pos, RParen), LAMBDA rp :
    Ok(<<"FunctionCall", fn_name.val, args.val>>, rp.pos)))))

parse_assignment(toks, pos) ==
    Try(expect_identifier(toks, pos), LAMBDA var_name :
    Try(expect(toks, var_name.pos, Equal), LAMBDA eq :
    Try(parse_expression(toks, eq.pos), LAMBDA rhs :
    Ok(<<"Assign", var_name.val, rhs.val>>, rhs.pos))))

RECURSIVE parse_arg_names_loop(_, _, _), parse_arg_names_loop_trailing(_, _, _)
\* The parameter loop with the guard of the Comma arm removed: a trailing
\* comma is accepted.
parse_arg_names_loop_trailing(toks, pos, arg_names) ==
    IF IsIdentifier(peek(toks, pos))
    THEN IF peek(toks, next_pos(pos)) = Comma
         THEN parse_arg_names_loop_trailing(
                  toks, next_pos(next_pos(pos)), Append(arg_names, peek(toks, pos)[2]))
         ELSE Ok(Append(arg_names, peek(toks, pos)[2]), next_pos(pos))
    ELSE Ok(arg_names, pos)

\* parse_function_definition's loop over the parameter names; it cannot
\* fail, so it always yields Ok(arg_names) and the cursor.
parse_arg_names_loop(toks, pos, arg_names) ==
    IF IsIdentifier(peek(toks, pos))
    THEN IF /\ peek(toks, next_pos(pos)) = Comma
            /\ peek_nth(toks, next_pos(pos), 2) # RParen
         THEN parse_arg_names_loop(
                  toks, next_pos(next_pos(pos)), Append(arg_names, peek(toks, pos)[2]))
         ELSE Ok(Append(arg_names, peek(toks, pos)[2]), next_pos(pos))
    ELSE Ok(arg_names, pos)

parse_function_definition(toks, pos) ==
    Try(expect(toks, pos, KeywordFn), LAMBDA kw :
    Try(expect_identifier(toks, kw.pos), LAMBDA fn_name :
    Try(expect(toks, fn_name.pos, LParen), LAMBDA lp :
    Try(parse_arg_names_loop(toks, lp.pos, <<>>), LAMBDA arg_names :
    Try(expect(toks, arg_names.pos, RParen), LAMBDA rp :
    Try(expect(toks, skip_newlines(toks, rp.pos), LBrace), LAMBDA lb :
    Try(parse_block(toks, lb.pos), LAMBDA body :
    Try(expect(toks, body.pos, RBrace), LAMBDA rb :
    Ok(<<"FunctionDefinition", fn_name.val, arg_names.val, body.val>>, rb.pos)))))))))

parse_if_statement(toks, pos) ==
    Try(expect(toks, pos, KeywordIf), LAMBDA kw :
    Try(expect(toks, kw.pos, LParen), LAMBDA lp :
    Try(parse_expression(toks, lp.pos), LAMBDA condition :
    Try(expect(toks, condition.pos, RParen), LAMBDA rp :
    Try(expect(toks, skip_newlines(toks, rp.pos), LBrace), LAMBDA lb :
    Try(parse_block(toks, lb.pos), LAMBDA body :
    Try(expect(toks, skip_newlines(toks, body.pos), RBrace), LAMBDA rb :
    Ok(<<"IfStatement", condition.val, body.val>>, rb.pos))))))))

\* Parser::parse without the check for unconsumed tokens.
parse_ignoring_leftover(toks) == parse_block(toks, 0)

\* Parser::parse, the entry point: one block, then every token consumed.
parse(toks) ==
    Try(parse_block(toks, 0),
        LAMBDA ast : IF ast.pos < Len(toks)
                     THEN Err(UnexpectedToken(toks[ast.pos + 1]), ast.pos)
                     ELSE ast)

(***************************************************************************)
(* State machine: an input is assembled piece by piece, then parsed once.   *)
(***************************************************************************)
NotParsed == [ok |-> FALSE, val |-> <<"not parsed">>, pos |-> 0]

\* A Context without user variables (Context::new(), main.rs 21, 30).
EmptyContext == [name \in {} |-> 0]

InitInput ==
    /\ pieces = <<>>
    /\ phase = "input"
    /\ result = NotParsed
    /\ ctx = EmptyContext
    /\ evaluate_calls = 0

\* Appends one piece (a run of tokens) to the input that will be parsed.
AddPiece(p) ==
    /\ phase = "input"
    /\ pieces' = Append(pieces, p)
    /\ tokens' = tokens \o p
    /\ UNCHANGED <<phase, result, ctx, evaluate_calls>>

RECURSIVE Flatten(_)
\* The tokens of a sequence of pieces.
Flatten(ps) == IF ps = <<>> THEN <<>> ELSE Head(ps) \o Flatten(Tail(ps))

\* Parser::new(tokens).parse(), as called by parser::parse.
Parse ==
    /\ phase = "input"
    /\ phase' = "parsed"
    /\ result' = parse(tokens)
    /\ UNCHANGED <<pieces, tokens, ctx, evaluate_calls>>

(***************************************************************************)
(* Blocks: inputs assembled from whole statements and block delimiters.     *)
(***************************************************************************)
MaxStmts == 3

\* Bare expression statements: they begin with a number, an identifier, a
\* minus or a parenthesis, and end with a number, an identifier or `)`.
ExprPieces ==
    { <<Number("1")>>, <<Identifier("a")>>, <<Minus, Number("2")>>,
      <<LParen, Number("2"), RParen>>, <<Number("1"), Plus, Identifier("a")>>,
      <<Identifier("f"), LParen, Number("1"), RParen>> }

AssignPiece == <<Identifier("b"), Equal, Number("2")>>

FnDefPiece ==
    <<KeywordFn, Identifier("f"), LParen, Identifier("a"), Comma,
      Identifier("b"), RParen, LBrace, Identifier("a"), Plus, Identifier("b"),
      RBrace>>

IfPiece ==
    <<KeywordIf, LParen, Number("0"), RParen, LBrace, Identifier("a"), Equal,
      Number("2"), RBrace>>

ElsePiece == <<KeywordElse, LBrace, Identifier("a"), Equal, Number("3"), RBrace>>

FnOpenPiece == <<KeywordFn, Identifier("f"), LParen, RParen, LBrace>>

IfOpenPiece == <<KeywordIf, LParen, Number("1"), RParen, LBrace>>

BlockPieces ==
    ExprPieces \cup
    { <<Newline>>, <<RBrace>>, AssignPiece, FnDefPiece, IfPiece, ElsePiece,
      FnOpenPiece, IfOpenPiece }

InitBlock == InitInput /\ tokens = <<>>

AddStmt == \E p \in BlockPieces : Len(pieces) < MaxStmts /\ AddPiece(p)

NextBlock == AddStmt \/ Parse

SpecBlock == InitBlock /\ [][NextBlock]_vars

(***************************************************************************)
(* Operator chains: operand (operator operand)*, without parentheses.       *)
(***************************************************************************)
MaxOps == 3

Operands == {Identifier("a"), Number("1")}

InitPrec == InitInput /\ \E x \in Operands : tokens = <<x>>

AddOperator ==
    \E op \in BinaryOps, x \in Operands :
        Len(pieces) < MaxOps /\ AddPiece(<<op, x>>)

NextPrec == AddOperator \/ Parse

SpecPrec == InitPrec /\ [][NextPrec]_vars

\* The reference the specification describes: precedence climbing with the
\* levels + - = 1, * / % = 2, ^ = 3 and left-to-right grouping per level.
RefLevel(op) ==
    CASE op \in {Plus, Minus} -> 1
      [] op \in {Star, Slash, Percent} -> 2
      [] op = Caret -> 3

RefNode(op, l, r) ==
    CASE op = Plus -> <<"Add", l, r>>
      [] op = Minus -> <<"Subtract", l, r>>
      [] op = Star -> <<"Multiply", l, r>>
      [] op = Slash -> <<"Divide", l, r>>
      [] op = Percent -> <<"Modulo", l, r>>
      [] op = Caret -> <<"Power", l, r>>

RefAtom(t) == IF IsNumber(t) THEN <<"Number", t[2]>> ELSE <<"Variable", t[2]>>

RECURSIVE RefClimb(_, _, _), RefClimbLoop(_, _, _, _)
\* Folds into lhs (ending before index i) every operator of level >= min.
RefClimbLoop(toks, i, lhs, min) ==
    IF i <= Len(toks) /\ RefLevel(toks[i]) >= min
    THEN LET rhs == RefClimb(toks, i + 1, RefLevel(toks[i]) + 1) IN
         RefClimbLoop(toks, rhs.at, RefNode(toks[i], lhs, rhs.val), min)
    ELSE [val |-> lhs, at |-> i]

RefClimb(toks, i, min) == RefClimbLoop(toks, i + 1, RefAtom(toks[i]), min)

RefParse(toks) == RefClimb(toks, 1, 1).val

\* C1: every parenthesis-free operator chain parses to the tree the
\* reference precedence-climbing parser builds (^ over * / % over + -,
\* left to right within a level), as the block's single line.
CexC1_PrecedenceTree ==
    phase = "parsed" =>
        /\ result.ok
        /\ result.val = <<"Lines", <<SomeLine(RefParse(tokens))>> >>

\* The operators of a chain x0 op1 x1 op2 x2 ... are its even tokens.
ChainOps(toks) == { toks[2 * k] : k \in 1 .. (Len(toks) - 1) \div 2 }

RECURSIVE LeftChain(_, _)
\* The chain's first k operators grouped left to right:
\* opk(...op2(op1(x0, x1), x2)..., xk).
LeftChain(toks, k) ==
    IF k = 0 THEN RefAtom(toks[1])
    ELSE RefNode(toks[2 * k], LeftChain(toks, k - 1), RefAtom(toks[2 * k + 1]))

\* C11: a chain of binary operators that all have the same precedence
\* level is grouped left to right whatever its length, `^` included:
\* a op1 b op2 c parses as op2(op1(a, b), c).
ThmC11_SameLevelLeftToRight ==
    (/\ phase = "parsed"
     /\ \A o1, o2 \in ChainOps(tokens) : RefLevel(o1) = RefLevel(o2))
        => /\ result.ok
           /\ result.val =
                  <<"Lines",
                    <<SomeLine(LeftChain(tokens, (Len(tokens) - 1) \div 2))>> >>

\* C11 happens: x ^ y ^ z with the longest chain the bound allows has been
\* parsed into Power nodes nested on the left.
WitC11_PowerChainGroupedLeft ==
    /\ phase = "parsed"
    /\ Len(pieces) = MaxOps
    /\ ChainOps(tokens) = {Caret}
    /\ result.ok
    /\ result.val[2][1][2][1] = "Power"
    /\ result.val[2][1][2][2][1] = "Power"
    /\ result.val[2][1][2][3] = RefAtom(tokens[Len(tokens)])

(***************************************************************************)
(* Claims about blocks (SpecBlock).                                         *)
(***************************************************************************)
\* The AST parse_expression builds for one expression piece on its own.
ExprAst(e) == parse_expression(e, 0).val

\* The statements of a Lines node, blank lines left out.
Statements(lines) == SelectSeq(lines, LAMBDA l : l # NoneLine)

\* pieces is: expression, one or more newlines, expression.
TwoExprLines ==
    /\ Len(pieces) >= 3
    /\ pieces[1] \in ExprPieces
    /\ pieces[Len(pieces)] \in ExprPieces
    /\ \A i \in 2 .. Len(pieces) - 1 : pieces[i] = <<Newline>>

\* C2: two bare expression statements separated by one or more newlines
\* parse to a Lines node holding both expressions in source order.
CexC2_NewlineSeparatedExpressions ==
    (phase = "parsed" /\ TwoExprLines) =>
        /\ result.ok
        /\ result.val[1] = "Lines"
        /\ Statements(result.val[2]) =
              << SomeLine(ExprAst(pieces[1])), SomeLine(ExprAst(pieces[Len(pieces)])) >>

\* C4: `if (c) { .. } else { .. }` is accepted and parses to an IfStatement
\* node that carries the else body next to the condition and the if body.
CexC4_IfElseAccepted ==
    (phase = "parsed" /\ pieces = <<IfPiece, ElsePiece>>) =>
        /\ result.ok
        /\ Len(result.val[2]) = 1
        /\ LET node == result.val[2][1][2] IN
               /\ node[1] = "IfStatement"
               /\ Len(node) = 4
               /\ node[4] = parse_block(<<Identifier("a"), Equal, Number("3")>>, 0).val

\* C5: a function definition directly followed by another function
\* definition, or an if statement directly followed by another if
\* statement, with no newline in between, makes parse fail.
CexC5_DefinitionsNeedNewline ==
    (/\ phase = "parsed"
     /\ \E i \in 1 .. Len(pieces) - 1 :
            \/ pieces[i] = FnDefPiece /\ pieces[i + 1] = FnDefPiece
            \/ pieces[i] = IfPiece /\ pieces[i + 1] = IfPiece)
        => ~result.ok

\* C6: a line in which the `identifier =` of an assignment is preceded by
\* the tokens of an expression (`a b = 2`) makes parse fail; it is not
\* parsed as something else.
CexC6_AssignmentNeedsLeadingIdentifier ==
    (/\ phase = "parsed"
     /\ \E i \in 1 .. Len(pieces) - 1 :
            pieces[i] \in ExprPieces /\ pieces[i + 1] = AssignPiece)
        => ~result.ok

\* Pieces that leave the parser at the start of a statement of the block
\* they are in, having parsed no expression line just before.
StatementLeads == { <<Newline>>, FnDefPiece, IfPiece, FnOpenPiece, IfOpenPiece }

\* pieces[i] and pieces[i + 1] are two bare expression statements with no
\* Newline between them, and pieces[i] starts a statement of its block.
AdjacentExpressions(i) ==
    /\ i + 1 <= Len(pieces)
    /\ pieces[i] \in ExprPieces
    /\ pieces[i + 1] \in ExprPieces
    /\ \A j \in 1 .. i - 1 : pieces[j] \in StatementLeads

FirstToken(p) == p[1]

LastToken(p) == p[Len(p)]

\* The number of tokens in front of pieces[i + 1].
TokensBefore(i) == Len(Flatten(SubSeq(pieces, 1, i)))

\* The second statement cannot continue the first: it begins with a number
\* or an identifier, or with `(` right after a `)`.
StartsNewExpression(first, second) ==
    \/ IsNumber(FirstToken(second))
    \/ IsIdentifier(FirstToken(second))
    \/ FirstToken(second) = LParen /\ LastToken(first) = RParen

\* C3 as stated: whatever the two expressions are, parse fails with
\* UnexpectedToken.
CexC3_AnyAdjacentExpressionsRejected ==
    (phase = "parsed" /\ \E i \in 1 .. Len(pieces) : AdjacentExpressions(i)) =>
        (~result.ok /\ result.val[1] = "UnexpectedToken")

\* C3, amended: a bare expression statement directly followed by a second
\* one that begins with a number or identifier, or with `(` after a `)`,
\* fails with UnexpectedToken carrying the second statement's first token,
\* at that token.  A second one beginning with `-`, or with `(` after an
\* identifier, continues the first expression (subtraction, call); `(`
\* after a number fails with ExpectedIdentifier.
ThmC3_AdjacentExpressions ==
    phase = "parsed" =>
        \A i \in 1 .. Len(pieces) :
            AdjacentExpressions(i) =>
                LET first == pieces[i]
                    second == pieces[i + 1]
                    merged == parse_expression(first \o second, 0)
                IN  /\ StartsNewExpression(first, second) =>
                          result = Err(UnexpectedToken(FirstToken(second)), TokensBefore(i))
                    /\ (FirstToken(second) = LParen /\ IsNumber(LastToken(first))) =>
                          (~result.ok /\ result.val = ExpectedIdentifier)
                    /\ (\/ FirstToken(second) = Minus
                        \/ FirstToken(second) = LParen /\ IsIdentifier(LastToken(first))) =>
                          /\ merged.ok /\ merged.pos = Len(first \o second)
                          /\ (i = 1 /\ Len(pieces) = 2) =>
                                result = Ok(<<"Lines", <<SomeLine(merged.val)>> >>, Len(tokens))

\* C3 witness: inside a function or if body, after an earlier piece, the
\* second of two adjacent expressions is reported as unexpected.
WitC3_SecondExpressionRejected ==
    /\ phase = "parsed"
    /\ \E i \in 2 .. Len(pieces) :
          /\ AdjacentExpressions(i)
          /\ pieces[1] \in {FnOpenPiece, IfOpenPiece}
          /\ StartsNewExpression(pieces[i], pieces[i + 1])
          /\ result = Err(UnexpectedToken(FirstToken(pieces[i + 1])), TokensBefore(i))

\* pieces is an opened body, statements, and the closing brace.
BodyOf(open) ==
    /\ Len(pieces) >= 2
    /\ pieces[1] = open
    /\ pieces[Len(pieces)] = <<RBrace>>

BodyTokens == Flatten(SubSeq(pieces, 2, Len(pieces) - 1))

\* C7: parse returns Ok only with every token consumed; when the top-level
\* block stops early, the token it stopped at is a `}` and parse fails with
\* UnexpectedToken of it; a `}` after a function or if body that parses on
\* its own ends that body, and the definition / if statement is accepted
\* with exactly that body.
ThmC7_AllTokensConsumed ==
    phase = "parsed" =>
        /\ result.ok => result.pos = Len(tokens)
        /\ LET block == parse_block(tokens, 0) IN
              (block.ok /\ block.pos < Len(tokens)) =>
                  /\ tokens[block.pos + 1] = RBrace
                  /\ result = Err(UnexpectedToken(tokens[block.pos + 1]), block.pos)
        /\ (BodyOf(FnOpenPiece) /\ parse(BodyTokens).ok) =>
              result = Ok(<<"Lines", << SomeLine(<<"FunctionDefinition", "f", <<>>,
                                                   parse(BodyTokens).val>>) >> >>,
                          Len(tokens))
        /\ (BodyOf(IfOpenPiece) /\ parse(BodyTokens).ok) =>
              result = Ok(<<"Lines", << SomeLine(<<"IfStatement", <<"Number", "1">>,
                                                   parse(BodyTokens).val>>) >> >>,
                          Len(tokens))

\* C7 witness: statements were parsed, then a `}` that closes nothing stops
\* the top-level block and is reported.
WitC7_StrayBraceReported ==
    /\ phase = "parsed"
    /\ LET block == parse_block(tokens, 0) IN
          /\ block.ok /\ block.pos > 0 /\ block.pos < Len(tokens)
          /\ result = Err(UnexpectedToken(RBrace), block.pos)

(***************************************************************************)
(* Function calls: `f (` followed by arguments, commas and `)`.             *)
(***************************************************************************)
MaxCallPieces == 5

ArgPieces ==
    { <<Number("1")>>, <<Identifier("a")>>, <<Minus, Number("2")>>,
      <<LParen, Number("2"), RParen>>,
      <<Identifier("f"), LParen, Number("1"), RParen>> }

CallPieces == ArgPieces \cup { <<Comma>>, <<RParen>> }

InitCall == InitInput /\ tokens = <<Identifier("f"), LParen>>

AddCallPiece == \E p \in CallPieces : Len(pieces) < MaxCallPieces /\ AddPiece(p)

NextCall == AddCallPiece \/ Parse

SpecCall == InitCall /\ [][NextCall]_vars

\* The input is `f ( <pieces before the last> )` with no other `)` piece.
ClosedBy(close) ==
    /\ Len(pieces) >= 1
    /\ pieces[Len(pieces)] = close
    /\ \A i \in 1 .. Len(pieces) - 1 : pieces[i] # close

\* What stands between the opening tokens and the closing piece.
Inner == SubSeq(pieces, 1, Len(pieces) - 1)

\* Piece j is what a comma-separated list of `items` has at place j.
Alternates(items, j) ==
    IF j % 2 = 1 THEN Inner[j] \in items ELSE Inner[j] = <<Comma>>

ListUpTo(items, k) == \A j \in 1 .. k : Alternates(items, j)

\* The number of tokens in front of Inner[j + 1]: the two (three) opening
\* tokens are in `tokens` from the start.
InnerOffset(opening, j) == opening + Len(Flatten(SubSeq(pieces, 1, j)))

\* The arguments of a well-formed list, each parsed on its own.
ArgAsts == [k \in 1 .. (Len(Inner) + 1) \div 2 |-> ExprAst(Inner[2 * k - 1])]

CallNode(args) == <<"Lines", << SomeLine(<<"FunctionCall", "f", args>>) >> >>

\* C8 as stated: after an argument, a trailing comma, a comma not followed
\* by another argument and a missing comma before the next argument each
\* fail with ExpectedToken(`)`).
CexC8_ListErrorsAreCloseParen ==
    (/\ phase = "parsed"
     /\ ClosedBy(<<RParen>>)
     /\ \E j \in 2 .. Len(Inner) :
           /\ Inner[j - 1] \in ArgPieces
           /\ \/ Inner[j] = <<Comma>> /\ j = Len(Inner)
              \/ Inner[j] = <<Comma>> /\ j < Len(Inner) /\ Inner[j + 1] \notin ArgPieces
              \/ Inner[j] \in ArgPieces)
        => (~result.ok /\ result.val = ExpectedToken(RParen))

\* C8, amended: `f(arg, ..)` parses to FunctionCall(f, args) with the
\* arguments in source order.  A trailing comma before `)`, and a missing
\* comma before an argument that begins with a number or identifier (or
\* with `(` after a `)`), fail with ExpectedToken(`)`).  A comma where an
\* argument is expected (leading comma, comma after comma) fails with
\* UnexpectedToken(`,`) instead.  Two arguments without a comma of which
\* the second begins with `-`, or with `(` after an identifier, are read
\* as one argument; `(` after a number fails with ExpectedIdentifier.
ThmC8_FunctionCallArguments ==
    (phase = "parsed" /\ ClosedBy(<<RParen>>)) =>
        LET m == Len(Inner) IN
        /\ (ListUpTo(ArgPieces, m) /\ (m = 0 \/ m % 2 = 1)) =>
              result = Ok(CallNode(ArgAsts), Len(tokens))
        /\ (ListUpTo(ArgPieces, m) /\ m > 0 /\ m % 2 = 0) =>
              result = Err(ExpectedToken(RParen), Len(tokens) - 1)
        /\ \A j \in 1 .. m :
              (ListUpTo(ArgPieces, j - 1) /\ ~Alternates(ArgPieces, j)) =>
                  /\ (j % 2 = 1 /\ Inner[j] = <<Comma>>) =>
                        result = Err(UnexpectedToken(Comma), InnerOffset(2, j - 1))
                  /\ (j % 2 = 0 /\ Inner[j] \in ArgPieces) =>
                        LET prev == Inner[j - 1]
                            cur == Inner[j]
                            merged == parse_expression(prev \o cur, 0)
                        IN  /\ StartsNewExpression(prev, cur) =>
                                  result = Err(ExpectedToken(RParen),
                                               InnerOffset(2, j - 1) + 1)
                            /\ (FirstToken(cur) = LParen /\ IsNumber(LastToken(prev))) =>
                                  (~result.ok /\ result.val = ExpectedIdentifier)
                            /\ (/\ \/ FirstToken(cur) = Minus
                                   \/ FirstToken(cur) = LParen /\ IsIdentifier(LastToken(prev))
                                /\ j = m) =>
                                  /\ result.ok
                                  /\ LET args == result.val[2][1][2][3] IN
                                        /\ Len(args) = j \div 2
                                        /\ args[j \div 2] = merged.val

\* C8 witness: `f(<arg>,)`, a trailing comma, rejected by expect(`)`).
WitC8_TrailingCommaRejected ==
    /\ phase = "parsed"
    /\ ClosedBy(<<RParen>>)
    /\ Len(Inner) = 2
    /\ ListUpTo(ArgPieces, 2)
    /\ result = Err(ExpectedToken(RParen), Len(tokens) - 1)

(***************************************************************************)
(* Function definitions: `fn f (` followed by parameter-list tokens and     *)
(* `) { }`.                                                                 *)
(***************************************************************************)
MaxParamPieces == 5

ParamNames == { <<Identifier("a")>>, <<Identifier("b")>> }

DefClose == <<RParen, LBrace, RBrace>>

ParamPieces ==
    ParamNames \cup { <<Comma>>, <<Number("1")>>, <<Plus>>, <<Newline>>, DefClose }

InitFnDef == InitInput /\ tokens = <<KeywordFn, Identifier("f"), LParen>>

AddParamPiece == \E p \in ParamPieces : Len(pieces) < MaxParamPieces /\ AddPiece(p)

NextFnDef == AddParamPiece \/ Parse

SpecFnDef == InitFnDef /\ [][NextFnDef]_vars

\* Inner is a comma-separated list of identifiers without trailing comma.
IsParamList ==
    /\ ListUpTo(ParamNames, Len(Inner))
    /\ Len(Inner) = 0 \/ Len(Inner) % 2 = 1

ParamList == [k \in 1 .. (Len(Inner) + 1) \div 2 |-> Inner[2 * k - 1][1][2]]

\* The arg_names of the single FunctionDefinition line of an Ok result.
ArgNamesOf(r) == r.val[2][1][2][3]

\* C9 as stated: every accepted definition has pairwise distinct parameter
\* names.
CexC9_ParametersDistinct ==
    (phase = "parsed" /\ ClosedBy(DefClose) /\ result.ok) =>
        \A i, j \in 1 .. Len(ArgNamesOf(result)) :
            i # j => ArgNamesOf(result)[i] # ArgNamesOf(result)[j]

\* C9, amended: parse accepts `fn f(<list>) {}` exactly when the list is a
\* comma-separated sequence of identifiers with no trailing comma, and the
\* node carries these names in order; the names need not be distinct
\* (`fn f(a, a) {}` is accepted with arg_names [a, a]).
ThmC9_ParameterList ==
    (phase = "parsed" /\ ClosedBy(DefClose)) =>
        /\ result.ok <=> IsParamList
        /\ result.ok =>
              result = Ok(<<"Lines", << SomeLine(<<"FunctionDefinition", "f", ParamList,
                                                   <<"Lines", <<>> >> >>) >> >>,
                          Len(tokens))

\* C9 witness: `fn f(a, a) {}` is accepted with both names.
WitC9_DuplicateAccepted ==
    /\ phase = "parsed"
    /\ pieces = << <<Identifier("a")>>, <<Comma>>, <<Identifier("a")>>, DefClose >>
    /\ result.ok
    /\ ArgNamesOf(result) = <<"a", "a">>

(***************************************************************************)
(* Token-level inputs: newlines among operands, operators and parentheses.  *)
(***************************************************************************)
MaxLen == 5

TokenAlphabet ==
    { Number("1"), Identifier("a"), LParen, RParen, Newline, Plus, Comma, Equal }

InitTokens == InitInput /\ tokens = <<>>

AddToken == \E t \in TokenAlphabet : Len(pieces) < MaxLen /\ AddPiece(<<t>>)

NextTokens == AddToken \/ Parse

SpecTokens == InitTokens /\ [][NextTokens]_vars

RECURSIVE Balanced(_, _, _, _)
\* toks[i .. k] closes every parenthesis it opens and no other, given d open.
Balanced(toks, i, k, d) ==
    IF i > k THEN d = 0
    ELSE IF toks[i] = LParen THEN Balanced(toks, i + 1, k, d + 1)
    ELSE IF toks[i] = RParen THEN d > 0 /\ Balanced(toks, i + 1, k, d - 1)
    ELSE Balanced(toks, i + 1, k, d)

\* Token j lies between an opening parenthesis and its matching `)`.
InsideParens(toks, j) ==
    \E i \in 1 .. j - 1, k \in j + 1 .. Len(toks) :
        /\ toks[i] = LParen
        /\ toks[k] = RParen
        /\ Balanced(toks, i + 1, k - 1, 0)

\* Token j follows a binary operator or `=`, where the right operand starts.
AfterOperator(toks, j) == j > 1 /\ toks[j - 1] \in BinaryOps \cup {Equal}

\* C10: a Newline after a binary operator or `=`, or anywhere between a
\* parenthesis and its matching `)`, makes parse fail.
CexC10_NewlineInExpressionRejected ==
    (/\ phase = "parsed"
     /\ \E j \in 1 .. Len(tokens) :
           /\ tokens[j] = Newline
           /\ AfterOperator(tokens, j) \/ InsideParens(tokens, j))
        => ~result.ok

(***************************************************************************)
(* Signed operands: minus signs before an operand, optionally after         *)
(* `a *` or `a +` and optionally followed by `^ 2`.                         *)
(***************************************************************************)
MaxSignPieces == 5

LeadPieces == { <<Identifier("a"), Star>>, <<Identifier("a"), Plus>> }

OperandPieces == { <<Identifier("a")>>, <<Number("1")>> }

PowerPiece == <<Caret, Number("2")>>

SignPieces == LeadPieces \cup OperandPieces \cup { <<Minus>>, PowerPiece }

InitSign == InitInput /\ tokens = <<>>

AddSignPiece == \E p \in SignPieces : Len(pieces) < MaxSignPieces /\ AddPiece(p)

NextSign == AddSignPiece \/ Parse

SpecSign == InitSign /\ [][NextSign]_vars

HasLead == pieces # <<>> /\ pieces[1] \in LeadPieces

HasPower == pieces # <<>> /\ pieces[Len(pieces)] = PowerPiece

\* Index of the first piece after the lead, and of the operand piece.
SignFrom == IF HasLead THEN 2 ELSE 1

OperandAt == IF HasPower THEN Len(pieces) - 1 ELSE Len(pieces)

\* The input is [a op] - ... - x [^ 2] with at least one minus sign.
IsSignedOperand ==
    /\ OperandAt > SignFrom
    /\ pieces[OperandAt] \in OperandPieces
    /\ \A i \in SignFrom .. OperandAt - 1 : pieces[i] = <<Minus>>

RECURSIVE SignChain(_, _)
\* n nested UnaryMinus nodes around the operand x.
SignChain(n, x) ==
    IF n = 0 THEN RefAtom(x) ELSE <<"UnaryMinus", SignChain(n - 1, x)>>

RECURSIVE SubTerms(_)
\* The nodes of an expression tree built from operands, UnaryMinus and
\* binary operators.
SubTerms(ast) ==
    IF ast[1] \in {"Number", "Variable"} THEN {ast}
    ELSE IF ast[1] = "UnaryMinus" THEN {ast} \cup SubTerms(ast[2])
    ELSE {ast} \cup SubTerms(ast[2]) \cup SubTerms(ast[3])

\* C12: n >= 1 minus signs before an operand x parse to n nested UnaryMinus
\* nodes around x alone, and when `^ y` follows, the base of the Power node
\* is exactly that chain, also when the signed operand is the right-hand
\* operand of another binary operator (a * -x ^ y).
CexC12_PowerBaseIsSignedOperand ==
    (phase = "parsed" /\ IsSignedOperand) =>
        /\ result.ok
        /\ LET ast == result.val[2][1][2]
               chain == SignChain(OperandAt - SignFrom, pieces[OperandAt][1])
           IN /\ chain \in SubTerms(ast)
              /\ HasPower =>
                     \E p \in SubTerms(ast) :
                         /\ p[1] = "Power"
                         /\ p[2] = chain
                         /\ p[3] = RefAtom(Number("2"))

\* The part of C12 the parser keeps: without a leading operand the chain
\* is the whole expression, or the base of the Power node at its root.
SignedOperandAlone ==
    (phase = "parsed" /\ IsSignedOperand /\ ~HasLead) =>
        /\ result.ok
        /\ LET chain == SignChain(OperandAt - SignFrom, pieces[OperandAt][1])
           IN result.val[2][1][2] =
                  IF HasPower THEN <<"Power", chain, RefAtom(Number("2"))>> ELSE chain

(***************************************************************************)
(* Arbitrary token sequences over the whole token vocabulary.               *)
(***************************************************************************)
MaxAnyLen == 4

AnyToken ==
    { Identifier("a"), Number("1"), Plus, Minus, Star, Slash, Percent, Caret,
      LParen, RParen, LBrace, RBrace, Comma, Equal, Newline, KeywordFn,
      KeywordIf, KeywordElse }

InitAny == InitInput /\ tokens = <<>>

AddAnyToken == \E t \in AnyToken : Len(pieces) < MaxAnyLen /\ AddPiece(<<t>>)

NextAny == AddAnyToken \/ Parse

SpecAny == InitAny /\ [][NextAny]_vars

ParseErrorKinds ==
    { "UnexpectedToken", "ExpectedToken", "ExpectedIdentifier", "NoTokensLeft" }

\* C13: for every token sequence parse returns Ok or a ParseError and never
\* panics: op_precedence never reaches its panicking arm, no token is read
\* from a position outside the sequence (an error names a token of the
\* vocabulary), and the cursor is beyond the end of the tokens only when
\* the result is an error.
ThmC13_ParseNeverPanics ==
    phase = "parsed" =>
        /\ result.val # Panicked
        /\ ~result.ok => result.val[1] \in ParseErrorKinds
        /\ (~result.ok /\ result.val[1] \in {"UnexpectedToken", "ExpectedToken"})
               => result.val[2] \in AnyToken
        /\ result.pos > Len(tokens) => ~result.ok

\* C13 happens: op_precedence was called for a binary `^` and expect moved
\* the cursor beyond the last token, and the result is a ParseError.
WitC13_CursorBeyondEndIsError ==
    /\ phase = "parsed"
    /\ \E i \in 1 .. Len(tokens) : tokens[i] = Caret
    /\ result.pos > Len(tokens)
    /\ ~result.ok
    /\ result.val = ExpectedIdentifier

(***************************************************************************)
(* The pipeline of eval_str_ctx: source text -> tokens -> AST -> value.     *)
(* tokenizer.rs and eval.rs are described by the specification (sections    *)
(* 4.1 and 4.3); a source text is a sequence of characters.                 *)
(***************************************************************************)
Digits == {"0", "1", "2", "3", "4", "5", "6", "7", "8", "9"}

Letters ==
    {"a", "b", "c", "d", "e", "f", "g", "h", "i", "j", "k", "l", "m", "n", "o",
     "p", "q", "r", "s", "t", "u", "v", "w", "x", "y", "z", "_",
     "A", "B", "C", "D", "E", "F", "G", "H", "I", "J", "K", "L", "M", "N", "O",
     "P", "Q", "R", "S", "T", "U", "V", "W", "X", "Y", "Z"}

Punctuation == {"+", "-", "*", "/", "%", "^", "(", ")", "{", "}", ",", "="}

Keywords == {"fn", "if", "else"}

\* The token of a letter-led lexeme: a reserved word or an identifier.
WordToken(word) ==
    IF word \in Keywords THEN <<"Keyword", word>> ELSE Identifier(word)

InvalidNumber == <<"InvalidNumber">>

UnexpectedCharacter == <<"UnexpectedCharacter">>

RECURSIVE RunEnd(_, _, _)
\* Index of the last character of the maximal run of characters of `set`
\* that starts at index i (i - 1 when the run is empty).
RunEnd(text, i, set) ==
    IF i <= Len(text) /\ text[i] \in set THEN RunEnd(text, i + 1, set) ELSE i - 1

RECURSIVE Lexeme(_, _, _)
\* The raw text of the characters i .. j.
Lexeme(text, i, j) == IF i > j THEN "" ELSE text[i] \o Lexeme(text, i + 1, j)

\* A numeric literal: at most one decimal point and at least one digit.
ValidNumber(text, i, j) ==
    /\ Cardinality({k \in i .. j : text[k] = "."}) <= 1
    /\ \E k \in i .. j : text[k] \in Digits

RECURSIVE tokenize_from(_, _, _)
\* tokenize's scan from character i with the tokens produced so far.
tokenize_from(text, i, out) ==
    IF i > Len(text) THEN [ok |-> TRUE, val |-> out]
    ELSE IF text[i] = " " THEN tokenize_from(text, i + 1, out)
    ELSE IF text[i] = "\n" THEN tokenize_from(text, i + 1, Append(out, Newline))
    ELSE IF text[i] \in Digits \cup {"."}
    THEN IF ValidNumber(text, i, RunEnd(text, i, Digits \cup {"."}))
         THEN tokenize_from(
                  text, RunEnd(text, i, Digits \cup {"."}) + 1,
                  Append(out,
                         Number(Lexeme(text, i, RunEnd(text, i, Digits \cup {"."})))))
         ELSE [ok |-> FALSE, val |-> InvalidNumber]
    ELSE IF text[i] \in Letters
    THEN tokenize_from(
             text, RunEnd(text, i, Letters \cup Digits) + 1,
             Append(out,
                    WordToken(Lexeme(text, i, RunEnd(text, i, Letters \cup Digits)))))
    ELSE IF text[i] \in Punctuation
    THEN tokenize_from(text, i + 1, Append(out, <<text[i]>>))
    ELSE [ok |-> FALSE, val |-> UnexpectedCharacter]

\* tokenize(text): the whole text, or the first lexical error.
tokenize(text) == tokenize_from(text, 1, <<>>)

EvalOk(v, c) == [ok |-> TRUE, val |-> v, ctx |-> c]

EvalErr(e, c) == [ok |-> FALSE, val |-> e, ctx |-> c]

UndefinedVariable(name) == <<"UndefinedVariable", name>>

\* The literals whose value the model's integers can hold.
IntegerLiterals == 0 .. 99

\* The value of a numeric literal's text, for the integer literals.
NumberValue(text) == CHOOSE n \in IntegerLiterals : ToString(n) = text

RECURSIVE evaluate(_, _), evaluate_lines(_, _, _, _)
\* Lines: the statements one after the other, each on the Context the
\* previous one left; the value is the last statement's, 0 if there is none.
evaluate_lines(lines, i, c, last) ==
    IF i > Len(lines) THEN EvalOk(last, c)
    ELSE IF lines[i] = NoneLine THEN evaluate_lines(lines, i + 1, c, last)
    ELSE Try(evaluate(lines[i][2], c),
             LAMBDA r : evaluate_lines(lines, i + 1, r.ctx, r.val))

\* evaluate(ast, ctx) for numbers, variables, + - *, unary minus, brackets,
\* assignments, if statements and blocks; division, modulo, power, function
\* calls and definitions and non-integer literals have no value here.  The
\* Context in the result is the one the call leaves behind, also when it
\* fails.
evaluate(ast, c) ==
    CASE ast[1] = "Lines" -> evaluate_lines(ast[2], 1, c, 0)
      [] ast[1] = "Number" -> EvalOk(NumberValue(ast[2]), c)
      [] ast[1] = "Variable" ->
             IF ast[2] \in DOMAIN c THEN EvalOk(c[ast[2]], c)
             ELSE EvalErr(UndefinedVariable(ast[2]), c)
      [] ast[1] = "Add" ->
             Try(evaluate(ast[2], c), LAMBDA l :
             Try(evaluate(ast[3], l.ctx), LAMBDA r :
             EvalOk(l.val + r.val, r.ctx)))
      [] ast[1] = "Subtract" ->
             Try(evaluate(ast[2], c), LAMBDA l :
             Try(evaluate(ast[3], l.ctx), LAMBDA r :
             EvalOk(l.val - r.val, r.ctx)))
      [] ast[1] = "Multiply" ->
             Try(evaluate(ast[2], c), LAMBDA l :
             Try(evaluate(ast[3], l.ctx), LAMBDA r :
             EvalOk(l.val * r.val, r.ctx)))
      [] ast[1] = "UnaryMinus" ->
             Try(evaluate(ast[2], c), LAMBDA r : EvalOk(0 - r.val, r.ctx))
      [] ast[1] = "Brackets" -> evaluate(ast[2], c)
      [] ast[1] = "Assign" ->
             Try(evaluate(ast[3], c), LAMBDA r :
             EvalOk(r.val, (ast[2] :> r.val) @@ r.ctx))
      [] ast[1] = "IfStatement" ->
             Try(evaluate(ast[2], c), LAMBDA cond :
             IF cond.val # 0 THEN evaluate(ast[3], cond.ctx)
             ELSE EvalOk(0, cond.ctx))

TokenizeError(e) == <<"TokenizeError", e>>

ParseError(e) == <<"ParseError", e>>

EvalError(e) == <<"EvalError", e>>

\* What a call of eval_str_ctx leaves: its Result, the Context, how often it
\* called evaluate, and the tokens it handed to parse.
Returned(ok, v, c, n, toks) ==
    [result |-> [ok |-> ok, val |-> v], ctx |-> c, evaluated |-> n,
     tokens |-> toks]

\* let result = evaluate(&ast, ctx)?; Ok(result)
evaluate_ast(ast, c, toks) ==
    LET r == evaluate(ast, c) IN
    Returned(r.ok, IF r.ok THEN r.val ELSE EvalError(r.val), r.ctx, 1, toks)

\* let ast = parse(&tokens)?; and what follows.
parse_tokens(toks, c) ==
    LET parsed == parse(toks) IN
    IF parsed.ok THEN evaluate_ast(parsed.val, c, toks)
    ELSE Returned(FALSE, ParseError(parsed.val), c, 0, toks)

\* Index of the Newline token that ends the line starting at token `from`
\* (the last token when no Newline follows).
LineEnd(toks, from) ==
    IF \E k \in from .. Len(toks) : toks[k] = Newline
    THEN CHOOSE k \in from .. Len(toks) :
             /\ toks[k] = Newline
             /\ \A j \in from .. k - 1 : toks[j] # Newline
    ELSE Len(toks)

RECURSIVE eval_token_lines(_, _, _, _, _), eval_parsed_line(_, _, _, _, _),
          eval_evaluated_line(_, _, _, _)
\* Parses and evaluates the tokens one line at a time, from token `from`
\* on: a line is evaluated before the lines after it are parsed.
eval_token_lines(toks, from, c, n, last) ==
    IF from > Len(toks) THEN Returned(TRUE, last, c, n, toks)
    ELSE eval_parsed_line(toks, from, c, n,
                          parse(SubSeq(toks, from, LineEnd(toks, from))))

eval_parsed_line(toks, from, c, n, parsed) ==
    IF parsed.ok
    THEN eval_evaluated_line(toks, from, n, evaluate(parsed.val, c))
    ELSE Returned(FALSE, ParseError(parsed.val), c, n, toks)

eval_evaluated_line(toks, from, n, r) ==
    IF r.ok
    THEN eval_token_lines(toks, LineEnd(toks, from) + 1, r.ctx, n + 1, r.val)
    ELSE Returned(FALSE, EvalError(r.val), r.ctx, n + 1, toks)

\* eval_str_ctx with parsing and evaluation interleaved line by line.
eval_str_ctx_line_by_line(s, c) ==
    LET tokenized == tokenize(s) IN
    IF tokenized.ok THEN eval_token_lines(tokenized.val, 1, c, 0, 0)
    ELSE Returned(FALSE, TokenizeError(tokenized.val), c, 0, <<>>)

\* eval_str_ctx(s, ctx): tokenize, parse, evaluate, each `?` returning the
\* error of its stage at once.
eval_str_ctx(s, c) ==
    LET tokenized == tokenize(s) IN
    IF tokenized.ok THEN parse_tokens(tokenized.val, c)
    ELSE Returned(FALSE, TokenizeError(tokenized.val), c, 0, <<>>)

RECURSIVE SourceText(_)
\* The text whose lines are `lines`: a newline between one line and the next.
SourceText(lines) ==
    IF lines = <<>> THEN <<>>
    ELSE IF Len(lines) = 1 THEN lines[1]
    ELSE lines[1] \o <<"\n">> \o SourceText(Tail(lines))

\* One call of eval_str_ctx on a whole text and the live Context.
EvalStrCtx ==
    /\ phase = "input"
    /\ LET r == eval_str_ctx(SourceText(pieces), ctx) IN
           /\ result' = r.result
           /\ ctx' = r.ctx
           /\ evaluate_calls' = evaluate_calls + r.evaluated
           /\ tokens' = r.tokens
    /\ phase' = "returned"
    /\ UNCHANGED pieces

(***************************************************************************)
(* Sessions: one Context and successive calls of eval_str_ctx on it, each   *)
(* on a text of whole lines.                                                *)
(***************************************************************************)
MaxLines == 3

MaxEvaluations == 2

AssignLine == <<"a", "=", "1">>

SourceLines ==
    { AssignLine,
      <<"l", "n", " ", "=", " ", "1", "2">>,
      <<"b", " ", "=", " ", "a", " ", "+", " ", "2">>,
      <<"b">>,
      <<"i", "f", "(", "a", ")", "{", "b", "=", "3", "}">>,
      <<"1", " ", "2">>,
      <<"a", "=">>,
      <<"1", ".", ".", "2">>,
      <<"$">> }

\* A fresh Context and no text yet.
InitEval == InitInput /\ tokens = <<>>

\* The text of the next call gets one more line.
AddLine ==
    \E l \in SourceLines :
        /\ phase = "input"
        /\ Len(pieces) < MaxLines
        /\ pieces' = Append(pieces, l)
        /\ UNCHANGED <<tokens, phase, result, ctx, evaluate_calls>>

\* The caller goes on to its next call of eval_str_ctx, with a new text and
\* the Context the calls so far have left.
NewText ==
    /\ phase = "returned"
    /\ evaluate_calls < MaxEvaluations
    /\ phase' = "input"
    /\ pieces' = <<>>
    /\ tokens' = <<>>
    /\ result' = NotParsed
    /\ UNCHANGED <<ctx, evaluate_calls>>

NextEval == AddLine \/ EvalStrCtx \/ NewText

SpecEval == InitEval /\ [][NextEval]_vars

\* Tokenizing the text fails, or parsing its tokens does.
SyntaxError(s) == ~tokenize(s).ok \/ ~parse(tokenize(s).val).ok

\* C14: when tokenizing or parsing fails anywhere in the input, the call of
\* eval_str_ctx returns that error without calling evaluate and leaves the
\* Context exactly as it was before the call, also when valid statements
\* precede the failing position.
ThmC14_SyntaxErrorLeavesContext ==
    [][(/\ phase = "input"
        /\ phase' = "returned"
        /\ SyntaxError(SourceText(pieces)))
           => /\ ctx' = ctx
              /\ evaluate_calls' = evaluate_calls
              /\ ~result'.ok
              /\ result'.val[1] \in {"TokenizeError", "ParseError"}]_vars

\* C14 happens: an earlier call has set `ln`, the text of this call began
\* with the valid line `a=1`, a later line did not parse, and the call
\* returned the ParseError without calling evaluate and with `a` unassigned.
WitC14_AssignmentBeforeParseError ==
    /\ phase = "returned"
    /\ Len(pieces) >= 2
    /\ pieces[1] = AssignLine
    /\ ~result.ok
    /\ result.val[1] = "ParseError"
    /\ evaluate_calls = 1
    /\ ctx = ("ln" :> 12)

====
